---- MODULE Spec2Model ----
(***************************************************************************)
(* The KPI dashboard script streamlit_kpi_dashboard.py as a state machine. *)
(* One step is one execution of the whole script (a Streamlit rerun): the  *)
(* sidebar widgets are read, a table is loaded, columns are picked, the    *)
(* memoized get_data coerces the time column, the KPIs and the ranking are *)
(* computed and the report is built.  The only state that survives a rerun *)
(* besides the widget values is the st.cache_data entry of get_data.       *)
(***************************************************************************)
EXTENDS Integers, Sequences, FiniteSets, TLC

VARIABLES sidebar, answer, engine, executed, df, date_col, value_col,
          group_cols, cache, data, total, mean, latest, prev, delta, agg,
          report_bytes, outcome, section

vars == <<sidebar, answer, engine, executed, df, date_col, value_col,
          group_cols, cache, data, total, mean, latest, prev, delta, agg,
          report_bytes, outcome, section>>

\* ------------------------------------------------------------- bounds
MaxRows == 2
MaxGroupCols == 2
BigRows == 12
BigShift == 2
BigMod == 10

\* head(10)
TopN == 10

\* ------------------------------------------------------------- values
\* Python None and optional values: an option is a sequence of length <= 1.
None == <<>>
Some(x) == <<x>>

\* A cell of a DataFrame: a number, a text, a missing value (NaN), a
\* timestamp (datetime64) or a missing timestamp (NaT).
Num(n) == [k |-> "num", n |-> n, s |-> ""]
Str(s) == [k |-> "str", n |-> 0, s |-> s]
NaN == [k |-> "na", n |-> 0, s |-> ""]
Ts(n) == [k |-> "ts", n |-> n, s |-> ""]
NaT == [k |-> "nat", n |-> 0, s |-> ""]

IsNA(c) == c.k \in {"na", "nat"}

Range(s) == {s[i] : i \in DOMAIN s}

RECURSIVE SumOver(_, _)
SumOver(S, f) ==
    IF S = {} THEN 0
    ELSE LET x == CHOOSE y \in S : TRUE IN f[x] + SumOver(S \ {x}, f)

\* The texts that occur in tables, in Python's string order.
TextOrder == <<"2024-01-01", "2024-01-02", "2024-01-03", "A", "B", "X", "Y", "n/a">>
\* The texts pd.to_datetime parses, by the day they denote.
DateText == <<"2024-01-01", "2024-01-02", "2024-01-03">>

IndexOf(seq, x) == CHOOSE i \in DOMAIN seq : seq[i] = x

\* The order of two non-missing cells of one column.
Rank(c) == IF c.k = "str" THEN IndexOf(TextOrder, c.s) ELSE c.n

\* ------------------------------------------------------------- tables
Table(cols, rows) == [cols |-> cols, rows |-> rows]
HasCol(t, c) == c \in Range(t.cols)
RowIdx(t) == 1..Len(t.rows)

\* pd.api.types.is_numeric_dtype(df[c]): the inferred dtype of a column is
\* numeric when it holds numbers (and missing values) only; the columns of
\* a table without rows are of dtype object.
is_numeric_dtype(t, c) ==
    /\ Len(t.rows) > 0
    /\ \A i \in RowIdx(t) : t.rows[i][c].k \in {"num", "na"}

num_cols(t) == SelectSeq(t.cols, LAMBDA c : is_numeric_dtype(t, c))

\* ------------------------------------------------------------- sidebar
CSV == "Arquivo CSV"
XLSX == "Arquivo Excel (.xlsx)"
SQL == "Banco de Dados SQL"

DefaultPort(db_type) == IF db_type = "postgresql" THEN "5432" ELSE "3306"

NoSidebar ==
    [source |-> CSV, uploaded_csv |-> None, uploaded_xlsx |-> None,
     db_type |-> "postgresql", sqlite_path |-> "", db_user |-> "",
     db_pass |-> "", db_host |-> "localhost", db_port |-> "5432",
     db_name |-> "", query |-> ""]

CsvSidebar(up) == [NoSidebar EXCEPT !.source = CSV, !.uploaded_csv = up]
XlsxSidebar(up) == [NoSidebar EXCEPT !.source = XLSX, !.uploaded_xlsx = up]

\* What the database does with the query when it is executed.
NoAnswer == [kind |-> "none", table |-> Table(<<>>, <<>>)]
Rows(t) == [kind |-> "rows", table |-> t]
ConnectionError == [kind |-> "ConnectionError", table |-> Table(<<>>, <<>>)]
QueryError == [kind |-> "QueryError", table |-> Table(<<>>, <<>>)]

\* An uploaded file: well-formed for its format, with the table it holds,
\* or malformed.
File(t) == [wellformed |-> TRUE, table |-> t]
Malformed == [wellformed |-> FALSE, table |-> Table(<<>>, <<>>)]

\* ------------------------------------------------------------- loading
\* Lines 35-51: the engine is constructed only from complete parameters;
\* create_engine only records the URL, it does not connect.
create_engine(url) == Some(url)

EngineForAny(sb) ==
    IF sb.db_type = "sqlite"
    THEN IF sb.sqlite_path # "" THEN create_engine(<<"sqlite", sb.sqlite_path>>)
         ELSE None
    ELSE IF \E x \in {sb.db_user, sb.db_pass, sb.db_host, sb.db_port, sb.db_name} : x # ""
         THEN create_engine(<<sb.db_type, sb.db_user, sb.db_pass, sb.db_host,
                              sb.db_port, sb.db_name>>)
         ELSE None

EngineFor(sb) ==
    IF sb.db_type = "sqlite"
    THEN IF sb.sqlite_path # "" THEN create_engine(<<"sqlite", sb.sqlite_path>>)
         ELSE None
    ELSE IF \A x \in {sb.db_user, sb.db_pass, sb.db_host, sb.db_port, sb.db_name} : x # ""
         THEN create_engine(<<sb.db_type, sb.db_user, sb.db_pass, sb.db_host,
                              sb.db_port, sb.db_name>>)
         ELSE None

\* pd.read_csv / pd.read_excel of an uploaded file.
read_file(up) ==
    IF up = None
    THEN [raised |-> FALSE, df |-> None, engine |-> None, executed |-> FALSE]
    ELSE IF up[1].wellformed
         THEN [raised |-> FALSE, df |-> Some(up[1].table), engine |-> None,
               executed |-> FALSE]
         ELSE [raised |-> TRUE, df |-> None, engine |-> None, executed |-> FALSE]

\* Lines 24-54: df, the engine and whether the query was executed; raised
\* when the read threw.
Load(sb, ans) ==
    IF sb.source = CSV THEN read_file(sb.uploaded_csv)
    ELSE IF sb.source = XLSX THEN read_file(sb.uploaded_xlsx)
    ELSE LET e == EngineFor(sb) IN
         IF e # None /\ sb.query # ""
         THEN IF ans.kind = "rows"
              THEN [raised |-> FALSE, df |-> Some(ans.table), engine |-> e,
                    executed |-> TRUE]
              ELSE [raised |-> TRUE, df |-> None, engine |-> e, executed |-> TRUE]
         ELSE [raised |-> FALSE, df |-> None, engine |-> e, executed |-> FALSE]

\* ------------------------------------------------------------- column picker
RECURSIVE DistinctSeqs(_, _)
DistinctSeqs(S, n) ==
    IF n = 0 THEN {<<>>}
    ELSE {<<>>} \cup UNION {{<<x>> \o r : r \in DistinctSeqs(S \ {x}, n - 1)} : x \in S}

\* Line 61: a selectbox over no options returns None.
ValueOptions(t) ==
    IF num_cols(t) = <<>> THEN {None} ELSE {Some(c) : c \in Range(num_cols(t))}

\* Lines 62-65: the multiselect offers the columns other than the two chosen.
GroupOptions(t, dc, vc) ==
    DistinctSeqs(Range(t.cols) \ ({dc} \cup Range(vc)), MaxGroupCols)

\* Lines 58-65: what the three widgets can return for table t.
ColumnPicker(t) ==
    UNION {{<<p[1], p[2], gc>> : gc \in GroupOptions(t, p[1], p[2])} :
           p \in Range(t.cols) \X ValueOptions(t)}

\* The widgets' values before the user touches them: the first option of a
\* selectbox, no option of the multiselect.
DefaultPick(t) ==
    <<t.cols[1], IF num_cols(t) = <<>> THEN None ELSE Some(num_cols(t)[1]), <<>>>>

\* ------------------------------------------------------------- get_data
\* pd.to_datetime of one cell.
Parsable(c) == c.k = "str" => c.s \in Range(DateText)

to_datetime(c) ==
    CASE c.k = "str" -> Ts(IndexOf(DateText, c.s))
      [] c.k = "num" -> Ts(c.n)
      [] c.k = "na" -> NaT
      [] OTHER -> c

\* Line 78 raises when a value of the column cannot be parsed.
Coercible(t, dc) == \A i \in RowIdx(t) : Parsable(t.rows[i][dc])

\* Lines 77-79: the body of get_data, run on a cache miss.
get_data_body(t, dc) ==
    Table(t.cols,
          [i \in RowIdx(t) |-> [t.rows[i] EXCEPT ![dc] = to_datetime(t.rows[i][dc])]])

\* Lines 75-76, 81: st.cache_data keys the entry by the function and its
\* arguments; get_data takes none, so once an entry exists every call is a
\* hit, whatever df and date_col are now.
CacheHit(c, t, dc) == c # None

\* ------------------------------------------------------------- sorting
\* sort_values(kind="quicksort"), the default: not stable, so rows with
\* equal keys come out in any order; missing keys go last.
Before(a, b, ascending) ==
    \/ IsNA(b)
    \/ /\ ~IsNA(a)
       /\ IF ascending THEN Rank(a) <= Rank(b) ELSE Rank(a) >= Rank(b)

RECURSIVE sort_values(_, _, _)
sort_values(S, key, ascending) ==
    IF S = {} THEN {<<>>}
    ELSE UNION {{<<x>> \o r : r \in sort_values(S \ {x}, key, ascending)} :
                x \in {y \in S : \A z \in S : Before(key[y], key[z], ascending)}}

head(s, n) == SubSeq(s, 1, IF Len(s) < n THEN Len(s) ELSE n)

\* ------------------------------------------------------------- KPIs
Present(d, vc) == {i \in RowIdx(d) : d.rows[i][vc].k = "num"}

\* Lines 84-87 raise: data[None] and a column the table lacks (KeyError),
\* sum/mean of a column that is not numeric (TypeError), sort_values by a
\* column the table lacks (KeyError), iloc[-1] of no rows (IndexError).
KpiRaises(d, vc, dc) ==
    \/ vc = None
    \/ ~HasCol(d, vc[1])
    \/ \E i \in RowIdx(d) : d.rows[i][vc[1]].k \notin {"num", "na"}
    \/ ~HasCol(d, dc)
    \/ Len(d.rows) = 0

\* Line 84: Series.sum() skips missing values.
Sum(d, vc) == SumOver(Present(d, vc), [i \in RowIdx(d) |-> d.rows[i][vc].n])

\* Line 85: Series.mean() skips missing values too: the sum of the values
\* present over their number, kept as a fraction (den = 0 is NaN).
MeanOverAllRows(d, vc) == [num |-> Sum(d, vc), den |-> Len(d.rows)]

Mean(d, vc) == [num |-> Sum(d, vc), den |-> Cardinality(Present(d, vc))]

\* Line 86: the orders sort_values(date_col) may return, as row numbers.
sorted_data(d, dc) == sort_values(RowIdx(d), [i \in RowIdx(d) |-> d.rows[i][dc]], TRUE)

\* Line 89: arithmetic with a missing value gives a missing value.
Minus(a, b) == IF a.k = "num" /\ b.k = "num" THEN Num(a.n - b.n) ELSE NaN

\* Lines 84-89 for one order of the sorted rows.
Kpi(d, vc, order) ==
    LET n == Len(order)
        last == d.rows[order[n]][vc]
        before == IF n > 1 THEN d.rows[order[n - 1]][vc] ELSE last
    IN [total |-> Sum(d, vc), mean |-> Mean(d, vc), latest |-> last,
        prev |-> before, delta |-> Minus(last, before)]

\* ------------------------------------------------------------- ranking
GroupKey(row, gc) == [j \in 1..Len(gc) |-> row[gc[j]]]

\* groupby(group_cols) drops the rows with a missing key (dropna=True).
Keyed(d, gc) == {i \in RowIdx(d) : \A j \in 1..Len(gc) : ~IsNA(d.rows[i][gc[j]])}
GroupKeys(d, gc) == {GroupKey(d.rows[i], gc) : i \in Keyed(d, gc)}
GroupSum(d, gc, vc, key) ==
    SumOver({i \in Keyed(d, gc) \cap Present(d, vc) : GroupKey(d.rows[i], gc) = key},
            [i \in RowIdx(d) |-> d.rows[i][vc].n])

\* Line 114 raises for a grouping column the table lacks (KeyError).
RankingRaises(d, gc) == \E j \in 1..Len(gc) : ~HasCol(d, gc[j])

RankingBy(d, gc, vc, ascending, n) ==
    LET keys == GroupKeys(d, gc)
        sums == [key \in keys |-> Num(GroupSum(d, gc, vc, key))]
    IN {head([j \in 1..Len(o) |-> [key |-> o[j], sum |-> sums[o[j]].n]], n) :
        o \in sort_values(keys, sums, ascending)}

RankingAscending(d, gc, vc) == RankingBy(d, gc, vc, TRUE, TopN)

\* Lines 113-119: the tables agg may be.
Ranking(d, gc, vc) == RankingBy(d, gc, vc, FALSE, TopN)

\* ------------------------------------------------------------- report
\* Lines 136-155: the two sheets of the workbook.
generate_report(d, k) ==
    [Dados |-> d,
     KPIs |-> <<<<"Total acumulado", Some(k.total)>>, <<"Media", Some(k.mean)>>,
                <<"Ultima leitura", Some(k.latest)>>, <<"Variacao", Some(k.delta)>>>>]

\* ------------------------------------------------------------- the script
\* What one execution leaves behind, before anything is computed.
Blank(c) ==
    [df |-> None, date_col |-> None, value_col |-> None, group_cols |-> <<>>,
     cache |-> c, data |-> None, total |-> None, mean |-> None, latest |-> None,
     prev |-> None, delta |-> None, agg |-> None, report_bytes |-> None,
     outcome |-> "awaiting", section |-> "none"]

Raised(o, where) == [o EXCEPT !.outcome = "error", !.section = where]

\* Lines 132-161.
ReportStep(o, d, k) ==
    [o EXCEPT !.report_bytes = Some(generate_report(d, k)), !.outcome = "ok"]

\* Lines 110-130, then the report.
RankingStep(o, d, k, vc, gc) ==
    IF gc = <<>> THEN {ReportStep(o, d, k)}
    ELSE IF RankingRaises(d, gc) THEN {Raised(o, "ranking")}
    ELSE {ReportStep([o EXCEPT !.agg = Some(r)], d, k) : r \in Ranking(d, gc, vc[1])}

\* Lines 83-94, then the rest.
KpiStep(o, d, dc, vc, gc) ==
    IF KpiRaises(d, vc, dc) THEN {Raised(o, "kpi")}
    ELSE UNION {LET k == Kpi(d, vc[1], order) IN
                RankingStep([o EXCEPT !.total = Some(k.total), !.mean = Some(k.mean),
                                      !.latest = Some(k.latest), !.prev = Some(k.prev),
                                      !.delta = Some(k.delta)], d, k, vc, gc) :
                order \in sorted_data(d, dc)}

\* Lines 75-81, then the rest: a hit returns the entry, a miss runs the
\* body and stores what it returns; a body that raises stores nothing.
GetDataStep(o, t, dc, vc, gc) ==
    IF CacheHit(o.cache, t, dc)
    THEN KpiStep([o EXCEPT !.data = o.cache], o.cache[1], dc, vc, gc)
    ELSE IF ~Coercible(t, dc) THEN {Raised(o, "coerce")}
    ELSE LET d == get_data_body(t, dc) IN
         KpiStep([o EXCEPT !.data = Some(d), !.cache = Some(d)], d, dc, vc, gc)

\* Lines 24-163: everything one execution of the script may leave behind,
\* for the loaded table ld, the widgets' column values and the cache c.
Script(ld, dc, vc, gc, c) ==
    IF ld.raised THEN {Raised(Blank(c), "load")}
    ELSE IF ld.df = None THEN {Blank(c)}
    ELSE GetDataStep([Blank(c) EXCEPT !.df = ld.df, !.date_col = Some(dc),
                                      !.value_col = vc, !.group_cols = gc],
                     ld.df[1], dc, vc, gc)

\* One rerun with sidebar sb, database answer ans and column values pick.
Rerun(sb, ans, pick) ==
    LET ld == Load(sb, ans) IN
    \E o \in Script(ld, pick[1], pick[2], pick[3], cache) :
        /\ sidebar' = sb
        /\ answer' = ans
        /\ engine' = ld.engine
        /\ executed' = ld.executed
        /\ df' = o.df
        /\ date_col' = o.date_col
        /\ value_col' = o.value_col
        /\ group_cols' = o.group_cols
        /\ cache' = o.cache
        /\ data' = o.data
        /\ total' = o.total
        /\ mean' = o.mean
        /\ latest' = o.latest
        /\ prev' = o.prev
        /\ delta' = o.delta
        /\ agg' = o.agg
        /\ report_bytes' = o.report_bytes
        /\ outcome' = o.outcome
        /\ section' = o.section

\* The column widgets keep their values over a rerun while the values are
\* still among their options, and fall back to their defaults otherwise.
NoPick == <<"", None, <<>>>>
KeptPick(ld) ==
    IF ld.df = None THEN NoPick
    ELSE IF date_col # None /\ <<date_col[1], value_col, group_cols>> \in ColumnPicker(ld.df[1])
         THEN <<date_col[1], value_col, group_cols>>
         ELSE DefaultPick(ld.df[1])

\* ------------------------------------------------------------- inputs
Cols3 == <<"date", "region", "sales">>
Row3(d, r, v) == [date |-> d, region |-> r, sales |-> v]

Scenario ==
    Table(Cols3, <<Row3(Str("2024-01-01"), Str("A"), Num(10)),
                   Row3(Str("2024-01-02"), Str("B"), Num(20)),
                   Row3(Str("2024-01-03"), Str("A"), Num(5))>>)
Ties ==
    Table(Cols3, <<Row3(Str("2024-01-02"), Str("B"), Num(5)),
                   Row3(Str("2024-01-02"), Str("A"), Num(5))>>)
HeaderOnly == Table(Cols3, <<>>)
TextOnly ==
    Table(<<"date", "region">>, <<[date |-> Str("2024-01-01"), region |-> Str("A")]>>)
BadDate == Table(Cols3, <<Row3(Str("n/a"), Str("A"), Num(10))>>)
Missing ==
    Table(Cols3, <<Row3(NaN, Str("B"), NaN), Row3(Str("2024-01-01"), Str("A"), Num(10))>>)

\* What the user may upload, and what the database may answer.
Uploads ==
    {None, Some(Malformed)}
    \cup {Some(File(t)) : t \in {Scenario, Ties, HeaderOnly, TextOnly, BadDate, Missing}}
Answers == {ConnectionError, QueryError, Rows(Scenario), Rows(HeaderOnly)}

SqlSidebars ==
    {[NoSidebar EXCEPT !.source = SQL, !.db_type = "sqlite", !.sqlite_path = p,
                       !.query = q] :
        p \in {"", "kpi.db"}, q \in {"", "SELECT * FROM kpis"}}
    \cup UNION {{[NoSidebar EXCEPT !.source = SQL, !.db_type = t, !.db_user = c[1],
                                   !.db_pass = c[2], !.db_host = c[3], !.db_port = c[4],
                                   !.db_name = c[5], !.query = c[6]] :
                  c \in {"", "user"} \X {"", "secret"} \X {"", "localhost"}
                        \X {"", DefaultPort(t)} \X {"", "kpis"}
                        \X {"", "SELECT * FROM kpis"}} :
                t \in {"postgresql", "mysql"}}

\* The database answers exactly the queries that are executed.
Answered(sb, ans) == (ans # NoAnswer) <=> Load(sb, ConnectionError).executed

\* ------------------------------------------------------------- the session
Init ==
    /\ sidebar = NoSidebar
    /\ answer = NoAnswer
    /\ engine = None
    /\ executed = FALSE
    /\ df = None
    /\ date_col = None
    /\ value_col = None
    /\ group_cols = <<>>
    /\ cache = None
    /\ data = None
    /\ total = None
    /\ mean = None
    /\ latest = None
    /\ prev = None
    /\ delta = None
    /\ agg = None
    /\ report_bytes = None
    /\ outcome = "awaiting"
    /\ section = "none"

\* The user picks the CSV source or changes the uploaded CSV file.
UploadCsv ==
    \E up \in Uploads :
        Rerun(CsvSidebar(up), NoAnswer, KeptPick(Load(CsvSidebar(up), NoAnswer)))

\* The user picks the Excel source or changes the uploaded workbook.
UploadXlsx ==
    \E up \in Uploads :
        Rerun(XlsxSidebar(up), NoAnswer, KeptPick(Load(XlsxSidebar(up), NoAnswer)))

\* The user picks the SQL source or edits one of its inputs.
SqlInput ==
    \E sb \in SqlSidebars, ans \in Answers \cup {NoAnswer} :
        /\ Answered(sb, ans)
        /\ Rerun(sb, ans, KeptPick(Load(sb, ans)))

\* The user changes one of the three column widgets.
ChangeSelection ==
    /\ df # None
    /\ \E pick \in ColumnPicker(df[1]) : Rerun(sidebar, answer, pick)

\* Line 73: the timer of st_autorefresh, mounted by an execution that got
\* past the column widgets, reruns the script with the widgets as they are.
TimerRefresh ==
    /\ df # None
    /\ \E ans \in Answers \cup {NoAnswer} :
        /\ Answered(sidebar, ans)
        /\ Rerun(sidebar, ans, KeptPick(Load(sidebar, ans)))

Next == UploadCsv \/ UploadXlsx \/ SqlInput \/ ChangeSelection \/ TimerRefresh

Spec == Init /\ [][Next]_vars

\* ------------------------------------------------------------- one run
\* The first execution on a fresh server (nothing cached) for every small
\* table and for tables with more groups than the ranking keeps: the
\* inputs are drawn by the initial state, the action runs the script.
Cols4 == <<"date", "region", "city", "sales">>

SmallRows ==
    {[date |-> Str(r[1]), region |-> Str(r[2]), city |-> Str(r[3]), sales |-> r[4]] :
        r \in {"2024-01-01", "2024-01-02"} \X {"A", "B"} \X {"X", "Y"}
              \X {NaN, Num(5)}}

SmallTables == {Table(Cols4, rows) : rows \in UNION {[1..n -> SmallRows] : n \in 0..MaxRows}}

\* Row i: epoch time i, store number i, one city, sales (i + k) % BigMod.
BigTables ==
    {Table(Cols4, [i \in 1..p[1] |-> [date |-> Num(i), region |-> Num(i), city |-> Str("X"),
                                   sales |-> Num((i + p[2]) % BigMod)]]) :
        p \in ((TopN + 1)..BigRows) \X (0..BigShift)}

InitAgg ==
    \E t \in SmallTables \cup BigTables :
        \E pick \in ColumnPicker(t) :
            /\ sidebar = CsvSidebar(Some(File(t)))
            /\ answer = NoAnswer
            /\ engine = None
            /\ executed = FALSE
            /\ df = None
            /\ date_col = Some(pick[1])
            /\ value_col = pick[2]
            /\ group_cols = pick[3]
            /\ cache = None
            /\ data = None
            /\ total = None
            /\ mean = None
            /\ latest = None
            /\ prev = None
            /\ delta = None
            /\ agg = None
            /\ report_bytes = None
            /\ outcome = "pending"
            /\ section = "none"

FirstRun ==
    /\ outcome = "pending"
    /\ Rerun(sidebar, NoAnswer, <<date_col[1], value_col, group_cols>>)

NextAgg == FirstRun

SpecAgg == InitAgg /\ [][NextAgg]_vars

\* ------------------------------------------------------------- properties
\* Line 84 was reached: the KPI computation was attempted.
AggregatorRan == outcome = "ok" \/ (outcome = "error" /\ section \in {"kpi", "ranking"})

MetricSum(d, vc, S) == SumOver(S \cap Present(d, vc), [i \in RowIdx(d) |-> d.rows[i][vc].n])

\* C1: the Ranking Table has one row per distinct value of the first
\* selected grouping column, holding the sum of the metric over all rows
\* with that value, whatever further grouping columns are selected (stated
\* for tables with at most TopN such values, so that nothing is truncated).
C1_GroupedByFirstColumn ==
    agg # None =>
        LET d == data[1]
            g == group_cols[1]
            firsts == {d.rows[i][g] : i \in RowIdx(d)}
        IN Cardinality(firsts) <= TopN =>
            /\ Len(agg[1]) = Cardinality(firsts)
            /\ \A v \in firsts :
                \E j \in 1..Len(agg[1]) :
                    /\ agg[1][j].key[1] = v
                    /\ agg[1][j].sum =
                        MetricSum(d, value_col[1], {i \in RowIdx(d) : d.rows[i][g] = v})

\* C2: a Ranking Table has at most 10 rows, each the sum of its group, the
\* sums are non-increasing from the first row to the last, and every group
\* left out has a sum no greater than any sum kept.
C2_TopTenSorted ==
    agg # None =>
        LET d == data[1]
            r == agg[1]
            kept == {r[j].key : j \in 1..Len(r)}
            sumOf(key) ==
                MetricSum(d, value_col[1],
                          {i \in Keyed(d, group_cols) : GroupKey(d.rows[i], group_cols) = key})
        IN /\ Len(r) <= TopN
           /\ \A j \in 1..Len(r) : r[j].key \in GroupKeys(d, group_cols) /\ r[j].sum = sumOf(r[j].key)
           /\ \A j \in 1..(Len(r) - 1) : r[j].sum >= r[j + 1].sum
           /\ \A key \in GroupKeys(d, group_cols) \ kept :
                \A j \in 1..Len(r) : sumOf(key) <= r[j].sum

\* C2's case: more groups than the table keeps.
C2_Witness ==
    /\ agg # None
    /\ Len(agg[1]) = TopN
    /\ Cardinality(GroupKeys(data[1], group_cols)) > TopN

\* The last row of S under a stable ascending sort by column dc: every
\* other row has a smaller key, or an equal key and an earlier position.
StableLast(d, dc, S) ==
    CHOOSE i \in S :
        \A j \in S \ {i} :
            LET a == d.rows[j][dc]
                b == d.rows[i][dc]
            IN /\ Before(a, b, TRUE)
               /\ Before(b, a, TRUE) => j < i

\* C3: latest and previous are the metric values of the last and the
\* second-to-last row of a stable ascending sort by time (of rows with equal
\* times the later one in the table counts as later); with exactly one row
\* previous equals latest and delta is 0 (read for a metric value that is
\* present: the difference of two missing values is missing).
C3_StableLatestPrevious ==
    total # None =>
        LET d == data[1]
            l == StableLast(d, date_col[1], RowIdx(d))
            p == IF Len(d.rows) > 1 THEN StableLast(d, date_col[1], RowIdx(d) \ {l}) ELSE l
        IN /\ latest[1] = d.rows[l][value_col[1]]
           /\ prev[1] = d.rows[p][value_col[1]]
           /\ (Len(d.rows) = 1 /\ ~IsNA(latest[1])) => (prev = latest /\ delta[1] = Num(0))

\* C4: a load that returns no rows is "no data": the placeholder is shown
\* and the KPI computation is attempted only on a table with a row.
C4_NoRowsIsNoData ==
    /\ (df # None /\ Len(df[1].rows) = 0) => outcome = "awaiting"
    /\ AggregatorRan => (df # None /\ Len(df[1].rows) >= 1)

\* C5: whenever the Aggregator runs, the metric column is a numeric column
\* of the loaded table and no grouping column is the time or metric column.
C5_SelectionInvariant ==
    AggregatorRan =>
        /\ value_col # None
        /\ HasCol(df[1], value_col[1])
        /\ is_numeric_dtype(df[1], value_col[1])
        /\ \A j \in 1..Len(group_cols) :
            group_cols[j] # date_col[1] /\ group_cols[j] \notin Range(value_col)

\* A required connection parameter of the chosen driver is empty.
ParameterMissing ==
    IF sidebar.db_type = "sqlite" THEN sidebar.sqlite_path = ""
    ELSE \/ sidebar.db_user = ""
         \/ sidebar.db_pass = ""
         \/ sidebar.db_host = ""
         \/ sidebar.db_port = ""
         \/ sidebar.db_name = ""

CorrectInputs ==
    /\ df # None
    /\ Len(df[1].rows) >= 1
    /\ Coercible(df[1], date_col[1])
    /\ value_col # None
    /\ value_col[1] # date_col[1]

\* C8: an error ends its own run only: the run after it, made with
\* corrected inputs, produces the normal output.
C8_ErrorEndsItsRunOnly ==
    [][(outcome = "error" /\ CorrectInputs') => outcome' = "ok"]_vars

\* C9: the table get_data returns in a run is the coercion of that run's
\* table with that run's time column.
C9_DataIsOfThisRun ==
    data # None =>
        /\ Coercible(df[1], date_col[1])
        /\ data[1] = get_data_body(df[1], date_col[1])

\* The first row of group key in the table's row order.
FirstAppearance(d, gc, key) ==
    CHOOSE i \in Keyed(d, gc) :
        /\ GroupKey(d.rows[i], gc) = key
        /\ \A j \in Keyed(d, gc) : GroupKey(d.rows[j], gc) = key => i <= j

\* C10: groups with equal sums are ranked in the order of their first
\* appearance in the table, among the rows kept and in which of them
\* survive the truncation.
C10_TiesByFirstAppearance ==
    agg # None =>
        LET d == data[1]
            r == agg[1]
            kept == {r[j].key : j \in 1..Len(r)}
            first(key) == FirstAppearance(d, group_cols, key)
        IN /\ \A j \in 1..Len(r) : \A m \in (j + 1)..Len(r) :
                r[j].sum = r[m].sum => first(r[j].key) < first(r[m].key)
           /\ \A key \in GroupKeys(d, group_cols) \ kept : \A j \in 1..Len(r) :
                r[j].sum = GroupSum(d, group_cols, value_col[1], key)
                    => first(r[j].key) < first(key)

====
